---- MODULE Spec2Model ----
(***************************************************************************)
(* Ledger state-transition core of lisk-js:                                *)
(*   - BaseTransaction.apply / undo (lisk-transactions/base_transaction.ts)*)
(*   - applyVote / undoVote and their three effect families                *)
(*     (lisk-blockchain/vote.ts), run against a StateStore.                *)
(* Strings the code builds (BigNum#toString, the candidate key template)   *)
(* are sequences of one-character strings.                                 *)
(***************************************************************************)
EXTENDS Integers, Sequences, FiniteSets, TLC

VARIABLES
    \* ---- BaseTransaction (base_transaction.ts)
    applied,      \* BaseTransaction.applied
    fee,          \* BaseTransaction.fee
    sender,       \* the Account the caller holds (returned by the last call)
    ops,          \* the calls made so far on the transaction, in order
    bals,         \* the balance held before the first call and after each call
    \* ---- VoteLedger (vote.ts) and the StateStore it runs against
    accounts,     \* BUCKET_ADDRESS_ACCOUNT: address -> Account or NotFound
    candidates,   \* BUCKET_CANDIDATE: set of <<key, address>>
    txs,          \* BUCKET_TX_ID_TX: id -> Transaction or NotFound
    tx,           \* the transaction handed to applyVote / undoVote
    calls,        \* the applyVote / undoVote calls made so far, in order
    fam,          \* position of each family coroutine of the current call
    recipientId,  \* applyAmount's local recipientId
    tasks,        \* the forEach callbacks started so far
    clean,        \* every call so far started with no callback still running
    faults,       \* store operations that were rejected
    accounts0,    \* the store before the first call
    candidates0,
    \* ---- evaluation of the pure functions (validate, verifyAgainstState,
    \*      getBytes, candidateKey)
    arg,          \* the inputs of the function under evaluation
    ret           \* what it returned

txVars == <<applied, fee, sender, ops, bals>>
voteVars == <<accounts, candidates, txs, tx, calls, fam, recipientId, tasks,
              clean, faults, accounts0, candidates0>>
pureVars == <<arg, ret>>
vars == <<applied, fee, sender, ops, bals, accounts, candidates, txs, tx,
          calls, fam, recipientId, tasks, clean, faults, accounts0,
          candidates0, arg, ret>>

(***************************************************************************)
(* Bounds of the model.                                                    *)
(***************************************************************************)
MaxOps == 4
MaxFaults == 1
MaxInFlight == 1

(***************************************************************************)
(* BigNum: arbitrary-precision integers, parsed from and printed to        *)
(* decimal strings.                                                        *)
(***************************************************************************)
Digits == <<"0", "1", "2", "3", "4", "5", "6", "7", "8", "9">>

DigitVal(c) == (CHOOSE i \in 1..10 : Digits[i] = c) - 1

RECURSIVE NatToString(_)
NatToString(n) ==
    IF n < 10 THEN <<Digits[n + 1]>>
    ELSE NatToString(n \div 10) \o <<Digits[(n % 10) + 1]>>

\* BigNum#toString
BigNumToString(n) ==
    IF n < 0 THEN <<"-">> \o NatToString(-n) ELSE NatToString(n)

RECURSIVE ParseNat(_)
ParseNat(s) ==
    IF s = <<>> THEN 0
    ELSE 10 * ParseNat(SubSeq(s, 1, Len(s) - 1)) + DigitVal(s[Len(s)])

\* new BigNum(string)
BigNum(s) ==
    IF s # <<>> /\ s[1] = "-" THEN -ParseNat(Tail(s)) ELSE ParseNat(s)

(***************************************************************************)
(* BaseTransaction.apply and BaseTransaction.undo.  Each returns the       *)
(* account it hands back and the value of the applied flag afterwards.     *)
(***************************************************************************)
applyMutantNoFlagCheck(acct, isApplied, txFee) ==
    [sender |-> [acct EXCEPT !.balance = BigNumToString(BigNum(acct.balance) - txFee)],
     applied |-> TRUE]

apply(acct, isApplied, txFee) ==
    IF isApplied
    THEN [sender |-> acct, applied |-> isApplied]
    ELSE [sender |-> [acct EXCEPT !.balance = BigNumToString(BigNum(acct.balance) - txFee)],
          applied |-> TRUE]

undoMutantNoFlagCheck(acct, isApplied, txFee) ==
    [sender |-> [acct EXCEPT !.balance = BigNumToString(BigNum(acct.balance) + txFee)],
     applied |-> isApplied]

undoMutantSubtracts(acct, isApplied, txFee) ==
    IF ~isApplied
    THEN [sender |-> acct, applied |-> isApplied]
    ELSE [sender |-> [acct EXCEPT !.balance = BigNumToString(BigNum(acct.balance) - txFee)],
          applied |-> isApplied]

undo(acct, isApplied, txFee) ==
    IF ~isApplied
    THEN [sender |-> acct, applied |-> isApplied]
    ELSE [sender |-> [acct EXCEPT !.balance = BigNumToString(BigNum(acct.balance) + txFee)],
          applied |-> isApplied]

(***************************************************************************)
(* Data of the VoteLedger model: addresses, public keys, transaction types.*)
(***************************************************************************)
TRANSACTION_TYPE_TRANSFER == "transfer"
TRANSACTION_TYPE_IN_TRANSFER == "inTransfer"
TRANSACTION_TYPE_OUT_TRANSFER == "outTransfer"
TRANSACTION_TYPE_VOTE == "vote"
TRANSACTION_TYPE_OTHER == "delegate"

Delegates == {"D1", "D2"}
Addresses == {"S", "R"} \cup Delegates
NullId == "null"
DappId == "dapp"

publicKeyOf(a) ==
    CASE a = "S" -> <<"a", "0">>
      [] a = "R" -> <<"b", "0">>
      [] a = "D1" -> <<"c", "1">>
      [] a = "D2" -> <<"c", "2">>

getAddressFromPublicKey(pk) == CHOOSE a \in Addresses : publicKeyOf(a) = pk

\* what a template literal prints for an absent (undefined) field
Undefined == <<"u", "n", "d", "e", "f", "i", "n", "e", "d">>

Families == {"fee", "amount", "newVote"}

(***************************************************************************)
(* StateStore: get fails with NotFound on an absent key, set is an upsert, *)
(* replace removes the old key and inserts the new one.                    *)
(***************************************************************************)
NotFound(bucket, key) == key \notin DOMAIN bucket

storeSet(bucket, key, value) ==
    [k \in DOMAIN bucket \cup {key} |-> IF k = key THEN value ELSE bucket[k]]

storeReplace(bucket, oldKey, newKey, value) ==
    {e \in bucket : e[1] # oldKey /\ e[1] # newKey} \cup {<<newKey, value>>}

(***************************************************************************)
(* vote.ts: candidateKey and the votes each callback computes.             *)
(***************************************************************************)
candidateKey(weight, publicKey) == weight \o <<":">> \o publicKey

\* delegate.votes || '0'
votesOrZero(votes) == IF votes = Undefined \/ votes = <<>> THEN <<"0">> ELSE votes

\* the votes string a callback of `kind` computes in applyVote / undoVote
\* from the delegate it read; `balance` is the sender.balance the new-vote
\* family read
updatedVotesMutantNoFee(op, kind, votes, t, balance) ==
    LET v == BigNum(votesOrZero(votes)) IN
    BigNumToString(
      CASE op = "apply" /\ kind = "amount" -> v + t.amount
        [] op = "undo"  /\ kind = "amount" -> v - t.amount
        [] op = "apply" /\ kind = "fee"    -> v
        [] op = "undo"  /\ kind = "fee"    -> v
        [] op = "apply" /\ kind = "up"     -> v + BigNum(balance)
        [] op = "undo"  /\ kind = "up"     -> v - BigNum(balance)
        [] op = "apply" /\ kind = "down"   -> (v - BigNum(balance)) + t.fee
        [] op = "undo"  /\ kind = "down"   -> (v + BigNum(balance)) - t.fee)

updatedVotes(op, kind, votes, t, balance) ==
    LET v == BigNum(votesOrZero(votes)) IN
    BigNumToString(
      CASE op = "apply" /\ kind = "amount" -> v + t.amount
        [] op = "undo"  /\ kind = "amount" -> v - t.amount
        [] op = "apply" /\ kind = "fee"    -> v - t.fee
        [] op = "undo"  /\ kind = "fee"    -> v + t.fee
        [] op = "apply" /\ kind = "up"     -> v + BigNum(balance)
        [] op = "undo"  /\ kind = "up"     -> v - BigNum(balance)
        [] op = "apply" /\ kind = "down"   -> (v - BigNum(balance)) + t.fee
        [] op = "undo"  /\ kind = "down"   -> (v + BigNum(balance)) - t.fee)

\* updateDelegateVote = {...delegate, votes: ...}
updateDelegateVoteMutantBalance(op, kind, delegate, t, balance) ==
    [delegate EXCEPT !.votes = updatedVotes(op, kind, delegate.votes, t, balance),
                     !.balance = updatedVotes(op, kind, delegate.votes, t, balance)]

updateDelegateVote(op, kind, delegate, t, balance) ==
    [delegate EXCEPT !.votes = updatedVotes(op, kind, delegate.votes, t, balance)]

\* updateCandidateKey(store, oldWeight, newWeight, address, publicKey)
updateCandidateKey(bucket, oldWeight, newWeight, address, publicKey) ==
    storeReplace(bucket, candidateKey(oldWeight, publicKey),
                 candidateKey(newWeight, publicKey), address)

\* votedDelegatesPublicKeys ? votedDelegatesPublicKeys.map(getAddressFromPublicKey) : []
delegateAddresses(account) ==
    {getAddressFromPublicKey(pk) : pk \in account.votedDelegatesPublicKeys}

\* asset.votes.filter(v => v[0] === sign).map(v => getAddressFromPublicKey(v.slice(1)))
votesWithSign(t, sign) ==
    {getAddressFromPublicKey(Tail(sv)) : sv \in {v \in t.asset.votes : Head(v) = sign}}

(***************************************************************************)
(* applyVote / undoVote as a state machine.  A call starts the three       *)
(* family coroutines; each suspends at its store reads and, once it has    *)
(* read the voter, starts one forEach callback per delegate and returns.   *)
(* A callback reads the delegate, then issues store.set and store.replace  *)
(* together (Promise.all); the store serves the two in either order.       *)
(***************************************************************************)
NoAccount ==
    [address |-> "", publicKey |-> <<>>, balance |-> <<>>, votes |-> <<>>,
     votedDelegatesPublicKeys |-> {}]

IsAmountType(t) ==
    t.type \in {TRANSACTION_TYPE_TRANSFER, TRANSACTION_TYPE_IN_TRANSFER,
                TRANSACTION_TYPE_OUT_TRANSFER}

\* where applyAmount / undoAmount first suspends (or returns)
amountEntryMutantNoTypeTest(t) ==
    IF t.type = TRANSACTION_TYPE_IN_TRANSFER THEN "getDapp" ELSE "getRecipient"

amountEntry(t) ==
    IF ~IsAmountType(t) THEN "done"
    ELSE IF t.type = TRANSACTION_TYPE_IN_TRANSFER THEN "getDapp"
    ELSE "getRecipient"

\* where applyNewVote / undoNewVote first suspends (or returns)
newVoteEntry(t) ==
    IF t.type # TRANSACTION_TYPE_VOTE THEN "done" ELSE "getSender"

\* recipientId = dappTx.senderId
dappRecipientIdMutantNominal(t, dappTx) == t.recipientId

dappRecipientId(t, dappTx) == dappTx.senderId

\* delegateAddresses.forEach(async address => ...): one callback per address
forEachMutantNone(call, kind, addrs, balance) == {}

forEach(call, kind, addrs, balance) ==
    {[call |-> call, kind |-> kind, address |-> a, pc |-> "get",
      pending |-> {}, effected |-> {}, delegate |-> NoAccount,
      balance |-> balance] : a \in addrs}

\* the block processor includes the transaction (applyVote) and may roll it
\* back (undoVote); it awaits each call's promise before the next call
CallPlan == <<"apply", "undo">>

CurrentCall == Len(calls)
OpOf(t) == calls[t.call]
Finished(t) == t.pc \in {"done", "rejected"} /\ t.pending = {}
Resolved == calls # <<>> /\ \A f \in Families : fam[f] = "done"
Rejected == \E f \in Families : fam[f] = "rejected"
Quiescent ==
    /\ \A f \in Families : fam[f] \in {"idle", "done", "rejected"}
    /\ \A t \in tasks : Finished(t)

StartCall ==
    /\ Len(calls) < Len(CallPlan)
    /\ calls = <<>> \/ Resolved
    /\ Cardinality({t \in tasks : ~Finished(t)}) <= MaxInFlight
    /\ calls' = Append(calls, CallPlan[Len(calls) + 1])
    /\ fam' = [f \in Families |->
                 CASE f = "fee" -> "getSender"
                   [] f = "amount" -> amountEntry(tx)
                   [] f = "newVote" -> newVoteEntry(tx)]
    /\ recipientId' = tx.recipientId
    /\ clean' = (clean /\ \A t \in tasks : Finished(t))
    /\ UNCHANGED <<accounts, candidates, txs, tx, tasks, faults, accounts0, candidates0, txVars, pureVars>>

FeeGetSender ==
    /\ fam["fee"] = "getSender"
    /\ IF NotFound(accounts, tx.senderId)
       THEN /\ fam' = [fam EXCEPT !["fee"] = "rejected"]
            /\ UNCHANGED tasks
       ELSE /\ tasks' = tasks \cup forEach(CurrentCall, "fee",
                                   delegateAddresses(accounts[tx.senderId]), <<>>)
            /\ fam' = [fam EXCEPT !["fee"] = "done"]
    /\ UNCHANGED <<accounts, candidates, txs, tx, calls, recipientId, clean, faults,
                   accounts0, candidates0, txVars, pureVars>>

AmountGetDapp ==
    /\ fam["amount"] = "getDapp"
    /\ IF NotFound(txs, tx.asset.inTransfer.dappId)
       THEN /\ fam' = [fam EXCEPT !["amount"] = "rejected"]
            /\ UNCHANGED recipientId
       ELSE /\ recipientId' = dappRecipientId(tx, txs[tx.asset.inTransfer.dappId])
            /\ fam' = [fam EXCEPT !["amount"] = "getRecipient"]
    /\ UNCHANGED <<accounts, candidates, txs, tx, calls, tasks, clean, faults,
                   accounts0, candidates0, txVars, pureVars>>

AmountGetRecipient ==
    /\ fam["amount"] = "getRecipient"
    /\ IF NotFound(accounts, recipientId)
       THEN /\ fam' = [fam EXCEPT !["amount"] = "rejected"]
            /\ UNCHANGED tasks
       ELSE /\ tasks' = tasks \cup forEach(CurrentCall, "amount",
                                   delegateAddresses(accounts[recipientId]), <<>>)
            /\ fam' = [fam EXCEPT !["amount"] = "done"]
    /\ UNCHANGED <<accounts, candidates, txs, tx, calls, recipientId, clean, faults,
                   accounts0, candidates0, txVars, pureVars>>

NewVoteGetSender ==
    /\ fam["newVote"] = "getSender"
    /\ IF NotFound(accounts, tx.senderId)
       THEN /\ fam' = [fam EXCEPT !["newVote"] = "rejected"]
            /\ UNCHANGED tasks
       ELSE /\ tasks' = tasks
                  \cup forEach(CurrentCall, "up", votesWithSign(tx, "+"),
                               accounts[tx.senderId].balance)
                  \cup forEach(CurrentCall, "down", votesWithSign(tx, "-"),
                               accounts[tx.senderId].balance)
            /\ fam' = [fam EXCEPT !["newVote"] = "done"]
    /\ UNCHANGED <<accounts, candidates, txs, tx, calls, recipientId, clean, faults,
                   accounts0, candidates0, txVars, pureVars>>

\* const delegate = await store.get(BUCKET_ADDRESS_ACCOUNT, address)
TaskGet(t) ==
    /\ t.pc = "get"
    /\ tasks' = (tasks \ {t}) \cup
         {IF NotFound(accounts, t.address)
          THEN [t EXCEPT !.pc = "rejected"]
          ELSE [t EXCEPT !.pc = "io", !.delegate = accounts[t.address],
                         !.pending = {"set", "replace"}]}
    /\ UNCHANGED <<accounts, candidates, txs, tx, calls, fam, recipientId, clean,
                   faults, accounts0, candidates0, txVars, pureVars>>

\* one of the two operations of the callback's Promise.all has completed
\* (a callback that has returned keeps no locals)
afterOp(t, o) ==
    [t EXCEPT !.pending = t.pending \ {o},
              !.pc = IF t.pending = {o} /\ t.pc = "io" THEN "done" ELSE t.pc,
              !.delegate = IF t.pending = {o} THEN NoAccount ELSE t.delegate]

\* store.set(BUCKET_ADDRESS_ACCOUNT, address, updateDelegateVote)
TaskSet(t) ==
    /\ "set" \in t.pending
    /\ accounts' = storeSet(accounts, t.address,
                     updateDelegateVote(OpOf(t), t.kind, t.delegate, tx, t.balance))
    /\ tasks' = (tasks \ {t}) \cup
                  {[afterOp(t, "set") EXCEPT !.effected = t.effected \cup {"set"}]}
    /\ UNCHANGED <<candidates, txs, tx, calls, fam, recipientId, clean, faults,
                   accounts0, candidates0, txVars, pureVars>>

\* updateCandidateKey(store, delegate.votes, updateDelegateVote.votes,
\*                    delegate.address, delegate.publicKey)
TaskReplace(t) ==
    /\ "replace" \in t.pending
    /\ candidates' = updateCandidateKey(candidates, t.delegate.votes,
                       updateDelegateVote(OpOf(t), t.kind, t.delegate, tx, t.balance).votes,
                       t.delegate.address, t.delegate.publicKey)
    /\ tasks' = (tasks \ {t}) \cup
                  {[afterOp(t, "replace") EXCEPT !.effected = t.effected \cup {"replace"}]}
    /\ UNCHANGED <<accounts, txs, tx, calls, fam, recipientId, clean, faults,
                   accounts0, candidates0, txVars, pureVars>>

\* the store rejects one pending operation: it has no effect, the callback's
\* Promise.all rejects, the other operation stays issued
TaskFault(t, o) ==
    /\ faults < MaxFaults
    /\ o \in t.pending
    /\ faults' = faults + 1
    /\ tasks' = (tasks \ {t}) \cup {[afterOp(t, o) EXCEPT !.pc = "rejected"]}
    /\ UNCHANGED <<accounts, candidates, txs, tx, calls, fam, recipientId, clean,
                   accounts0, candidates0, txVars, pureVars>>

(***************************************************************************)
(* Initial stores and transactions.                                        *)
(***************************************************************************)
\* sender balance 1000, fee 10, amount 500, delegate weight 2000
Example == [balance |-> 1000, fee |-> 10, amount |-> 500, votes |-> 2000]

DelegateKeys == {publicKeyOf(d) : d \in Delegates}
VotedChoices == {{}} \cup {{k} : k \in DelegateKeys}
SignedVoteChoices ==
    {{}, {<<"+">> \o publicKeyOf("D1")}, {<<"-">> \o publicKeyOf("D2")},
     {<<"+">> \o publicKeyOf("D1"), <<"-">> \o publicKeyOf("D2")}}
TransactionTypes ==
    {TRANSACTION_TYPE_TRANSFER, TRANSACTION_TYPE_IN_TRANSFER,
     TRANSACTION_TYPE_OUT_TRANSFER, TRANSACTION_TYPE_VOTE, TRANSACTION_TYPE_OTHER}

Transaction(type, signedVotes) ==
    [id |-> "tx", type |-> type, amount |-> Example.amount, fee |-> Example.fee,
     senderId |-> "S",
     recipientId |-> IF type \in {TRANSACTION_TYPE_TRANSFER, TRANSACTION_TYPE_OUT_TRANSFER}
                     THEN "R" ELSE NullId,
     asset |-> [votes |-> signedVotes,
                inTransfer |-> [dappId |-> IF type = TRANSACTION_TYPE_IN_TRANSFER
                                           THEN DappId ELSE ""]]]

Account(a, balance, votes, voted) ==
    [address |-> a, publicKey |-> publicKeyOf(a), balance |-> balance,
     votes |-> votes, votedDelegatesPublicKeys |-> voted]

\* the CandidateIndex entry of every delegate account of the store
IndexOf(accts) ==
    {<<candidateKey(votesOrZero(accts[d].votes), accts[d].publicKey), d>> :
        d \in Delegates \cap DOMAIN accts}

\* no pure function is under evaluation
NoArg == [fn |-> "none"]
NoRet == [fn |-> "none"]

IdlePure ==
    /\ arg = NoArg
    /\ ret = NoRet

IdleTx ==
    /\ applied = FALSE
    /\ fee = 0
    /\ sender = [balance |-> <<"0">>]
    /\ ops = <<>>
    /\ bals = <<>>

IdleVote ==
    /\ accounts = <<>>
    /\ candidates = {}
    /\ txs = <<>>
    /\ tx = Transaction(TRANSACTION_TYPE_OTHER, {})
    /\ calls = <<>>
    /\ fam = [f \in Families |-> "idle"]
    /\ recipientId = NullId
    /\ tasks = {}
    /\ clean = TRUE
    /\ faults = 0
    /\ accounts0 = <<>>
    /\ candidates0 = {}

Init ==
    /\ IdleTx
    /\ IdlePure
    /\ \E type \in TransactionTypes, sv \in SignedVoteChoices,
          senderVoted \in VotedChoices, recipientVoted \in VotedChoices,
          dappKnown \in BOOLEAN :
        /\ type # TRANSACTION_TYPE_VOTE => sv = {}
        /\ ~IsAmountType(Transaction(type, sv)) => recipientVoted = {}
        /\ type # TRANSACTION_TYPE_IN_TRANSFER => dappKnown
        /\ tx = Transaction(type, sv)
        /\ accounts = [a \in Addresses |->
             CASE a = "S" -> Account(a, BigNumToString(Example.balance), Undefined, senderVoted)
               [] a = "R" -> Account(a, BigNumToString(0), Undefined, recipientVoted)
               [] a = "D1" -> Account(a, BigNumToString(0), Undefined, {})
               [] a = "D2" -> Account(a, BigNumToString(0), BigNumToString(Example.votes), {})]
        /\ txs = IF dappKnown /\ type = TRANSACTION_TYPE_IN_TRANSFER
                 THEN [i \in {DappId} |-> [id |-> DappId, senderId |-> "R"]]
                 ELSE <<>>
    /\ candidates = IndexOf(accounts)
    /\ calls = <<>>
    /\ fam = [f \in Families |-> "idle"]
    /\ recipientId = NullId
    /\ tasks = {}
    /\ clean = TRUE
    /\ faults = 0
    /\ accounts0 = accounts
    /\ candidates0 = candidates

Next ==
    \/ StartCall
    \/ FeeGetSender
    \/ AmountGetDapp
    \/ AmountGetRecipient
    \/ NewVoteGetSender
    \/ \E t \in tasks : TaskGet(t)
    \/ \E t \in tasks : TaskSet(t)
    \/ \E t \in tasks : TaskReplace(t)

Fault == \E t \in tasks, o \in {"set", "replace"} : TaskFault(t, o)

NextFault == Next \/ Fault

Spec == Init /\ [][Next]_vars

SpecFault == Init /\ [][NextFault]_vars

(***************************************************************************)
(* The block processor around applyVote / undoVote: it stores the account  *)
(* BaseTransaction.apply returns for the sender, and it goes on to the     *)
(* next transaction of the block once applyVote's promise has resolved.    *)
(***************************************************************************)
SaveSender ==
    /\ calls = <<"apply">>
    /\ Resolved
    /\ ~applied
    /\ ~NotFound(accounts, tx.senderId)
    /\ LET r == apply(accounts[tx.senderId], applied, tx.fee) IN
        /\ accounts' = storeSet(accounts, tx.senderId, r.sender)
        /\ applied' = r.applied
    /\ UNCHANGED <<fee, sender, ops, bals, candidates, txs, tx, calls, fam,
                   recipientId, tasks, clean, faults, accounts0, candidates0,
                   pureVars>>

\* await applyVote(store, tx1); applyVote(store, tx2): tx2 is a transaction
\* of the same sender, type, fee and amount
NextTransaction ==
    /\ calls = <<"apply">>
    /\ Resolved
    /\ Cardinality({t \in tasks : ~Finished(t)}) <= MaxInFlight
    /\ tx' = [tx EXCEPT !.id = "tx2"]
    /\ calls' = Append(calls, "apply")
    /\ fam' = [f \in Families |->
                 CASE f = "fee" -> "getSender"
                   [] f = "amount" -> amountEntry(tx')
                   [] f = "newVote" -> newVoteEntry(tx')]
    /\ recipientId' = tx'.recipientId
    /\ clean' = (clean /\ \A t \in tasks : Finished(t))
    /\ UNCHANGED <<accounts, candidates, txs, tasks, faults, accounts0,
                   candidates0, txVars, pureVars>>

NextBlock == Next \/ SaveSender \/ NextTransaction

SpecBlock == Init /\ [][NextBlock]_vars

\* stores in which one account a call looks up is absent
MissingChoices == {{a} : a \in Addresses}

InitNotFound ==
    /\ IdleTx
    /\ IdlePure
    /\ \E type \in TransactionTypes, sv \in SignedVoteChoices,
          senderVoted \in VotedChoices, recipientVoted \in VotedChoices,
          dappKnown \in BOOLEAN, missing \in MissingChoices :
        /\ type # TRANSACTION_TYPE_VOTE => sv = {}
        /\ ~IsAmountType(Transaction(type, sv)) => recipientVoted = {}
        /\ type # TRANSACTION_TYPE_IN_TRANSFER => dappKnown
        /\ tx = Transaction(type, sv)
        /\ accounts = [a \in Addresses \ missing |->
             CASE a = "S" -> Account(a, BigNumToString(Example.balance), Undefined, senderVoted)
               [] a = "R" -> Account(a, BigNumToString(0), Undefined, recipientVoted)
               [] a = "D1" -> Account(a, BigNumToString(0), Undefined, {})
               [] a = "D2" -> Account(a, BigNumToString(0), BigNumToString(Example.votes), {})]
        /\ txs = IF dappKnown /\ type = TRANSACTION_TYPE_IN_TRANSFER
                 THEN [i \in {DappId} |-> [id |-> DappId, senderId |-> "R"]]
                 ELSE <<>>
    /\ candidates = IndexOf(accounts)
    /\ calls = <<>>
    /\ fam = [f \in Families |-> "idle"]
    /\ recipientId = NullId
    /\ tasks = {}
    /\ clean = TRUE
    /\ faults = 0
    /\ accounts0 = accounts
    /\ candidates0 = candidates

SpecNotFound == InitNotFound /\ [][Next]_vars

TxFees == {10, 25}
TxBalances == {5, 100, 1000}

InitTx ==
    /\ applied = FALSE
    /\ fee \in TxFees
    /\ \E b \in TxBalances : sender = [balance |-> BigNumToString(b)]
    /\ ops = <<>>
    /\ bals = <<sender.balance>>
    /\ IdleVote
    /\ IdlePure

Apply ==
    /\ Len(ops) < MaxOps
    /\ LET r == apply(sender, applied, fee) IN
        /\ sender' = r.sender
        /\ applied' = r.applied
    /\ ops' = Append(ops, "apply")
    /\ bals' = Append(bals, sender'.balance)
    /\ UNCHANGED <<fee, voteVars, pureVars>>

Undo ==
    /\ Len(ops) < MaxOps
    /\ LET r == undo(sender, applied, fee) IN
        /\ sender' = r.sender
        /\ applied' = r.applied
    /\ ops' = Append(ops, "undo")
    /\ bals' = Append(bals, sender'.balance)
    /\ UNCHANGED <<fee, voteVars, pureVars>>

SpecTx == InitTx /\ [][Apply \/ Undo]_vars

(***************************************************************************)
(* BaseTransaction.validate.  The schema validator and the signature       *)
(* verifier are collaborators: what they answer is an input.               *)
(***************************************************************************)
TRANSACTION_TYPES == TransactionTypes

\* new TransactionError(message, dataPath)
TransactionError(message, dataPath) == [message |-> message, dataPath |-> dataPath]

\* an errors value: an array, or undefined
ErrorList(list) == [defined |-> TRUE, list |-> list]
UndefinedErrors == [defined |-> FALSE, list |-> <<>>]

\* errors.map(error => new TransactionError(`'${error.dataPath}' ${error.message}`, error.dataPath))
MapSchemaErrors(errors) ==
    [i \in 1..Len(errors) |->
        TransactionError(<<errors[i].dataPath, errors[i].message>>, errors[i].dataPath)]

validate(transaction, schemaReturn, verified) ==
    IF transaction.type \notin TRANSACTION_TYPES
    THEN [validated |-> FALSE,
          errors |-> ErrorList(<<TransactionError(<<"", "Invalid transaction type.">>, "")>>)]
    ELSE LET transactionErrors ==
                 IF schemaReturn.errors.defined
                 THEN ErrorList(MapSchemaErrors(schemaReturn.errors.list))
                 ELSE UndefinedErrors
         IN  IF transaction.signature = ""
             THEN [validated |-> FALSE,
                   errors |-> ErrorList(<<TransactionError(
                       <<"", "Cannot validate transaction without signature.">>, "")>>)]
             ELSE [validated |-> schemaReturn.valid /\ verified,
                   errors |-> transactionErrors]

\* what validateTransaction may answer: valid with no errors array, or not
\* valid with one error per violation
SchemaReturns ==
    {[valid |-> TRUE, errors |-> UndefinedErrors],
     [valid |-> FALSE,
      errors |-> ErrorList(<<[dataPath |-> ".amount", message |-> "should be string"]>>)],
     [valid |-> FALSE,
      errors |-> ErrorList(<<[dataPath |-> ".amount", message |-> "should be string"],
                             [dataPath |-> ".fee", message |-> "should be string"]>>)]}

ValidateArgs ==
    {[fn |-> "validate",
      transaction |-> [type |-> ty, signature |-> sig],
      schemaReturn |-> sr,
      verified |-> v] :
        ty \in {TRANSACTION_TYPE_TRANSFER, TRANSACTION_TYPE_VOTE, "unknown"},
        sig \in {"", "3a9e"}, sr \in SchemaReturns, v \in BOOLEAN}

Validate ==
    /\ arg.fn = "validate"
    /\ ret = NoRet
    /\ ret' = [fn |-> "validate"] @@
              validate(arg.transaction, arg.schemaReturn, arg.verified)
    /\ UNCHANGED <<arg, txVars, voteVars>>

(***************************************************************************)
(* BaseTransaction.verifyAgainstState.  verifyTransaction's answer for the *)
(* second signature is an input.                                           *)
(***************************************************************************)
\* checkBalance(sender, this.fee): exceeded when the balance is below the fee
checkBalance(account, amount) ==
    LET exceeded == BigNum(account.balance) < amount IN
    [exceeded |-> exceeded,
     errors |-> IF exceeded
                THEN <<TransactionError(<<"", "Account does not have enough LSK">>, "")>>
                ELSE <<>>]

verifyAgainstStateMutantNoBalance(acct, txFee, secondVerified) ==
    LET verified == IF acct.secondPublicKey # "" THEN secondVerified ELSE TRUE
    IN  [verified |-> verified, errors |-> checkBalance(acct, txFee).errors]

verifyAgainstState(acct, txFee, secondVerified) ==
    LET cb == checkBalance(acct, txFee)
        verified == IF acct.secondPublicKey # "" THEN secondVerified ELSE TRUE
    IN  [verified |-> ~cb.exceeded /\ verified, errors |-> cb.errors]

VerifyBalances == {5, 10, 100}
VerifyAmounts == {0, 500}

VerifyArgs ==
    {[fn |-> "verifyAgainstState",
      sender |-> [balance |-> BigNumToString(b), secondPublicKey |-> spk],
      fee |-> f, amount |-> a, applied |-> ap, secondVerified |-> sv] :
        b \in VerifyBalances, spk \in {"", "d4"}, f \in TxFees,
        a \in VerifyAmounts, ap \in BOOLEAN, sv \in BOOLEAN}

VerifyAgainstState ==
    /\ arg.fn = "verifyAgainstState"
    /\ ret = NoRet
    /\ ret' = [fn |-> "verifyAgainstState"] @@
              verifyAgainstState(arg.sender, arg.fee, arg.secondVerified)
    /\ UNCHANGED <<arg, txVars, voteVars>>

\* the caller applies the transaction to the sender it has just verified
ApplyVerified ==
    /\ ret.fn = "verifyAgainstState"
    /\ ret.verified
    /\ ret' = [fn |-> "apply", verified |-> ret.verified] @@
              apply(arg.sender, arg.applied, arg.fee)
    /\ UNCHANGED <<arg, txVars, voteVars>>

(***************************************************************************)
(* BaseTransaction.getBytes.  A Buffer is a sequence of bytes (0..255).    *)
(***************************************************************************)
BYTESIZES == [TYPE |-> 1, TIMESTAMP |-> 4, RECIPIENT_ID |-> 8, AMOUNT |-> 8]

HexDigits == <<"0", "1", "2", "3", "4", "5", "6", "7", "8", "9",
               "a", "b", "c", "d", "e", "f">>

HexVal(c) == (CHOOSE i \in 1..16 : HexDigits[i] = c) - 1

\* Buffer.alloc(size, fill)
BufferAlloc(size, fill) == [i \in 1..size |-> fill % 256]

\* cryptography.hexToBuffer: one byte per pair of hex digits
hexToBuffer(hex) ==
    [i \in 1..(Len(hex) \div 2) |-> 16 * HexVal(hex[2 * i - 1]) + HexVal(hex[2 * i])]

\* the `size` low-order bytes of n, least significant first
RECURSIVE LittleEndian(_, _)
LittleEndian(n, size) ==
    IF size = 0 THEN <<>> ELSE <<n % 256>> \o LittleEndian(n \div 256, size - 1)

\* transactionTimestamp.writeIntLE(this.timestamp, 0, BYTESIZES.TIMESTAMP)
writeIntLE(n, size) == LittleEndian(n, size)

\* cryptography.bigNumberToBuffer(numeral, size)
bigNumberToBuffer(numeral, size) == LittleEndian(BigNum(numeral), size)

\* amountBigNum.toBuffer({endian: 'little', size}), for amounts of one word
toBuffer(n, size) == LittleEndian(n, size)

\* recipientId.slice(0, -1)
DropLast(str) == SubSeq(str, 1, Len(str) - 1)

getBytesMutantNoAmount(t) ==
    BufferAlloc(BYTESIZES.TYPE, t.type)
    \o writeIntLE(t.timestamp, BYTESIZES.TIMESTAMP)
    \o hexToBuffer(t.senderPublicKey)
    \o (IF t.recipientId # <<>>
        THEN bigNumberToBuffer(DropLast(t.recipientId), BYTESIZES.RECIPIENT_ID)
        ELSE BufferAlloc(BYTESIZES.RECIPIENT_ID, 0))
    \o (IF t.signature # <<>> THEN hexToBuffer(t.signature) ELSE <<>>)
    \o (IF t.signature # <<>> /\ t.signSignature # <<>>
        THEN hexToBuffer(t.signSignature) ELSE <<>>)

\* signSignature is read through toJSON, which carries it only when the
\* signature is a non-empty string too
getBytes(t) ==
    BufferAlloc(BYTESIZES.TYPE, t.type)
    \o writeIntLE(t.timestamp, BYTESIZES.TIMESTAMP)
    \o hexToBuffer(t.senderPublicKey)
    \o (IF t.recipientId # <<>>
        THEN bigNumberToBuffer(DropLast(t.recipientId), BYTESIZES.RECIPIENT_ID)
        ELSE BufferAlloc(BYTESIZES.RECIPIENT_ID, 0))
    \o toBuffer(t.amount, BYTESIZES.AMOUNT)
    \o (IF t.signature # <<>> THEN hexToBuffer(t.signature) ELSE <<>>)
    \o (IF t.signature # <<>> /\ t.signSignature # <<>>
        THEN hexToBuffer(t.signSignature) ELSE <<>>)

ByteAmounts == {0, 1, 255, 256, 500}

SignableTransactions ==
    {[type |-> ty, timestamp |-> ts, senderPublicKey |-> publicKeyOf("S"),
      recipientId |-> rid, amount |-> a, fee |-> f,
      signature |-> sig, signSignature |-> ssig] :
        ty \in {0, 6}, ts \in {0, 300}, rid \in {<<>>, <<"1", "6", "L">>},
        a \in ByteAmounts, f \in TxFees,
        sig \in {<<>>, <<"3", "a", "9", "e">>}, ssig \in {<<>>, <<"9", "e">>}}

\* a transaction, and the same or one that differs from it in amount or fee
GetBytesArgs ==
    {[fn |-> "getBytes", transaction |-> t,
      other |-> [t EXCEPT !.amount = a, !.fee = f]] :
        t \in SignableTransactions, a \in ByteAmounts, f \in TxFees}

GetBytes ==
    /\ arg.fn = "getBytes"
    /\ ret = NoRet
    /\ ret' = [fn |-> "getBytes", bytes |-> getBytes(arg.transaction),
               otherBytes |-> getBytes(arg.other)]
    /\ UNCHANGED <<arg, txVars, voteVars>>

(***************************************************************************)
(* candidateKey on two (weight, publicKey) pairs.                          *)
(***************************************************************************)
KeyWeights == {-10, -9, 0, 9, 10, 100}

CandidateKeyArgs ==
    {[fn |-> "candidateKey", weight |-> w1, publicKey |-> pk1,
      otherWeight |-> w2, otherPublicKey |-> pk2] :
        w1 \in KeyWeights, w2 \in KeyWeights,
        pk1 \in DelegateKeys, pk2 \in DelegateKeys}

CandidateKeys ==
    /\ arg.fn = "candidateKey"
    /\ ret = NoRet
    /\ ret' = [fn |-> "candidateKey",
               key |-> candidateKey(BigNumToString(arg.weight), arg.publicKey),
               otherKey |-> candidateKey(BigNumToString(arg.otherWeight),
                                         arg.otherPublicKey)]
    /\ UNCHANGED <<arg, txVars, voteVars>>

(***************************************************************************)
(* Evaluation of the pure functions on bounded inputs.                     *)
(***************************************************************************)
PureArgs == ValidateArgs \cup VerifyArgs \cup GetBytesArgs \cup CandidateKeyArgs

InitPure ==
    /\ arg \in PureArgs
    /\ ret = NoRet
    /\ IdleTx
    /\ IdleVote

NextPure ==
    \/ Validate
    \/ VerifyAgainstState
    \/ ApplyVerified
    \/ GetBytes
    \/ CandidateKeys

SpecPure == InitPure /\ [][NextPure]_vars

(***************************************************************************)
(* Claims about BaseTransaction, checked under SpecTx.                     *)
(***************************************************************************)
\* the transaction was marked applied by a call before call i
AppliedBefore(i) == \E j \in 1..(i - 1) : ops[j] = "apply"

\* C1 (as stated): for every transaction, whatever calls were made on it
\* before, an undo that follows an apply hands back the balance held before
\* that apply.
C1_UndoOfApplyRestoresAnyTransaction ==
    \A i \in 1..(Len(ops) - 1) :
        (ops[i] = "apply" /\ ops[i + 1] = "undo") => bals[i + 2] = bals[i]

\* C1 (amended): for a transaction that has not been applied before, an undo
\* that follows an apply hands back exactly the balance held before the apply.
C1_UndoOfApplyRestoresFreshTransaction ==
    \A i \in 1..(Len(ops) - 1) :
        (ops[i] = "apply" /\ ops[i + 1] = "undo" /\ ~AppliedBefore(i))
            => bals[i + 2] = bals[i]

C1_Witness ==
    /\ ops = <<"apply", "undo">>
    /\ bals[2] # bals[1]
    /\ bals[3] = bals[1]

\* C2: the first apply call subtracts fee from the balance and marks the
\* transaction applied; every later apply call hands back the account it was
\* given, so the fee is deducted exactly once over any number of apply calls.
C2_ApplyIdempotent ==
    /\ \A i \in 1..Len(ops) :
        ops[i] = "apply" =>
            IF AppliedBefore(i)
            THEN bals[i + 1] = bals[i]
            ELSE BigNum(bals[i + 1]) = BigNum(bals[i]) - fee
    /\ (\E i \in 1..Len(ops) : ops[i] = "apply") => applied
    /\ Cardinality({i \in 1..Len(ops) :
                      ops[i] = "apply" /\ bals[i + 1] # bals[i]}) <= 1

C2_Witness ==
    /\ Len(ops) >= 3
    /\ \A i \in 1..Len(ops) : ops[i] = "apply"
    /\ BigNum(bals[2]) = BigNum(bals[1]) - fee
    /\ bals[Len(bals)] = bals[2]

(***************************************************************************)
(* Claims about applyVote / undoVote, checked under Spec (SpecFault where  *)
(* a store operation may fail).                                            *)
(***************************************************************************)
\* a delegate's weight, as a number
Weight(accts, d) == BigNum(votesOrZero(accts[d].votes))

\* the CandidateIndex entries that reference delegate d
EntriesOf(bucket, d) == {e \in bucket : e[2] = d}

\* the delta a callback adds to the votes it read
Delta(t) == BigNum(updatedVotes(OpOf(t), t.kind, <<"0">>, tx, t.balance))

RECURSIVE SumDeltas(_)
SumDeltas(S) ==
    IF S = {} THEN 0
    ELSE LET t == CHOOSE x \in S : TRUE IN Delta(t) + SumDeltas(S \ {t})

\* every call so far has run to completion, each started after the one before
\* it had completed
Completed == clean /\ Resolved /\ Quiescent

VotesPresent(d) == accounts0[d].votes # Undefined

\* C3: applyVote run to completion, then undoVote run to completion, restores
\* every delegate's votes value and its CandidateIndex entries (stated here
\* for the delegates whose votes field is present before applyVote).
C3_UndoVoteRestoresDelegates ==
    (calls = <<"apply", "undo">> /\ Completed) =>
        \A d \in Delegates :
            VotesPresent(d) =>
                /\ Weight(accounts, d) = Weight(accounts0, d)
                /\ EntriesOf(candidates, d) = EntriesOf(candidates0, d)

\* C4: after any sequence of completed applyVote / undoVote calls every
\* delegate has exactly one CandidateIndex entry, keyed by its current votes
\* and its public key (stated here for the delegates whose votes field is
\* present before the first call).
C4_CandidateIndexConsistent ==
    (calls # <<>> /\ Completed) =>
        \A d \in Delegates :
            VotesPresent(d) =>
                EntriesOf(candidates, d) =
                    {<<candidateKey(accounts[d].votes, accounts[d].publicKey), d>>}

\* C5: when the promise of applyVote / undoVote has resolved, no callback of
\* that call is still running: every store.set and store.replace issued for
\* the transaction has finished.
C5_ResolvesAfterAllWrites ==
    Resolved => \A t \in tasks : t.call = CurrentCall => Finished(t)

\* C6: within one applyVote call no update is lost: once the call has run to
\* completion each delegate's votes equal its initial votes plus the sum of
\* the deltas the families directed at it.
C6_NoLostUpdate ==
    (Len(calls) = 1 /\ Completed) =>
        \A d \in Delegates :
            Weight(accounts, d) =
                Weight(accounts0, d) + SumDeltas({t \in tasks : t.address = d})

\* 1 if account a votes for delegate d, else 0
VotesFor(a, d) ==
    IF publicKeyOf(d) \in accounts0[a].votedDelegatesPublicKeys THEN 1 ELSE 0

\* C7: conservation for a transfer: after applyVote every delegate has changed
\* by -fee if the sender votes for it, plus +amount if the recipient votes for
\* it, and not at all otherwise; undoVote applies the opposite deltas.
C7_TransferConservation ==
    (tx.type = TRANSACTION_TYPE_TRANSFER /\ calls # <<>> /\ Completed) =>
        \A d \in Delegates :
            Weight(accounts, d) =
                Weight(accounts0, d)
                + (IF calls[Len(calls)] = "apply"
                   THEN (tx.amount * VotesFor(tx.recipientId, d))
                        - (tx.fee * VotesFor(tx.senderId, d))
                   ELSE 0)

\* C8: a vote transaction with one upvote for D1 and one downvote for D2,
\* sender balance B and fee F, changes D1.votes by +B and D2.votes by F - B;
\* undoing it restores both.
C8_VoteDirectiveNetting ==
    (/\ tx.type = TRANSACTION_TYPE_VOTE
     /\ tx.asset.votes = {<<"+">> \o publicKeyOf("D1"), <<"-">> \o publicKeyOf("D2")}
     /\ calls # <<>>
     /\ Completed) =>
        LET B == BigNum(accounts0[tx.senderId].balance) IN
        IF calls[Len(calls)] = "apply"
        THEN /\ Weight(accounts, "D1") = Weight(accounts0, "D1") + B
             /\ Weight(accounts, "D2") = (Weight(accounts0, "D2") + tx.fee) - B
        ELSE /\ Weight(accounts, "D1") = Weight(accounts0, "D1")
             /\ Weight(accounts, "D2") = Weight(accounts0, "D2")

DappKnown == ~NotFound(txs, tx.asset.inTransfer.dappId)

\* C9: the amount effect, in apply and in undo, touches the delegates voted
\* for by the sender of the transaction asset.inTransfer.dappId refers to when
\* the transaction is an in-transfer (whose recipientId is null), and the
\* delegates voted for by recipientId when it is a transfer or out-transfer.
C9_AmountEffectRecipient ==
    /\ \A t \in tasks :
        t.kind = "amount" =>
            /\ IsAmountType(tx)
            /\ tx.type = TRANSACTION_TYPE_IN_TRANSFER =>
                /\ DappKnown
                /\ t.address \in delegateAddresses(
                       accounts[txs[tx.asset.inTransfer.dappId].senderId])
            /\ tx.type # TRANSACTION_TYPE_IN_TRANSFER =>
                t.address \in delegateAddresses(accounts[tx.recipientId])
    /\ (tx.type = TRANSACTION_TYPE_IN_TRANSFER /\ DappKnown) =>
        /\ tx.recipientId = NullId
        /\ fam["amount"] # "rejected"
        /\ fam["amount"] = "done" =>
            {t.address : t \in {u \in tasks : u.kind = "amount" /\ u.call = CurrentCall}}
                = delegateAddresses(accounts[txs[tx.asset.inTransfer.dappId].senderId])

C9_Witness ==
    /\ tx.type = TRANSACTION_TYPE_IN_TRANSFER
    /\ calls = <<"apply">>
    /\ Completed
    /\ \E t \in tasks : t.kind = "amount" /\ t.address = "D2" /\ t.pc = "done"
    /\ tasks # {} /\ \A t \in tasks : t.kind = "amount"
    /\ Weight(accounts, "D2") = Weight(accounts0, "D2") + tx.amount

\* C10: each delegate mutation is atomic: once its store.set and
\* store.replace have both settled, either both took effect or neither did.
C10_MutationAtomic ==
    \A t \in tasks :
        Finished(t) => (t.effected = {} \/ t.effected = {"set", "replace"})

(***************************************************************************)
(* Claims about lookups that fail, checked under SpecNotFound.             *)
(***************************************************************************)
\* a lookup made for the current call failed with NotFound
LookupFailed ==
    \/ Rejected
    \/ \E t \in tasks : t.call = CurrentCall /\ t.pc = "rejected"

\* C11: a NotFound raised by any lookup of applyVote / undoVote (sender,
\* recipient, referenced dapp transaction, delegate account) rejects the
\* promise the call returned: no call with a failed lookup resolves.
C11_NotFoundPropagates == LookupFailed => ~Resolved

(***************************************************************************)
(* Claims about the pure functions, checked under SpecPure.                *)
(***************************************************************************)
Range(f) == {f[i] : i \in DOMAIN f}

\* C12: validate returns an aggregate report: when validated is false the
\* errors list is non-empty, and it holds an error for every check that
\* failed (unrecognized type, each schema violation, missing signature),
\* whichever other checks failed too.
C12_ValidateAggregates ==
    ret.fn = "validate" =>
        LET errs == Range(ret.errors.list) IN
        /\ ~ret.validated => (ret.errors.defined /\ errs # {})
        /\ arg.transaction.type \notin TRANSACTION_TYPES =>
               TransactionError(<<"", "Invalid transaction type.">>, "") \in errs
        /\ \A e \in Range(arg.schemaReturn.errors.list) :
               TransactionError(<<e.dataPath, e.message>>, e.dataPath) \in errs
        /\ arg.transaction.signature = "" =>
               TransactionError(<<"", "Cannot validate transaction without signature.">>, "")
                   \in errs

\* C13: verifyAgainstState returns verified = true exactly when the sender's
\* balance is at least the fee and, if the sender has a second public key,
\* the second signature verifies, whatever the amount; apply on a sender so
\* verified hands back a non-negative balance.
C13_VerifyAgainstState ==
    /\ ret.fn = "verifyAgainstState" =>
        (ret.verified <=>
            /\ BigNum(arg.sender.balance) >= arg.fee
            /\ arg.sender.secondPublicKey # "" => arg.secondVerified)
    /\ ret.fn = "apply" => BigNum(ret.sender.balance) >= 0

C13_Witness ==
    /\ ret.fn = "apply"
    /\ ~arg.applied
    /\ arg.amount > BigNum(arg.sender.balance)
    /\ arg.sender.secondPublicKey # ""
    /\ BigNum(arg.sender.balance) = arg.fee
    /\ ret.sender.balance = <<"0">>

(***************************************************************************)
(* Further claims about apply / undo, checked under SpecTx.                *)
(***************************************************************************)
\* the calls among the first n that changed the balance they were given
Changing(op, n) == {i \in 1..n : ops[i] = op /\ bals[i + 1] # bals[i]}

\* C14: over any sequence of apply and undo calls on one transaction, each
\* given the account the previous call returned, the fee is never restored
\* more often than it was deducted: the balance is always the initial balance
\* or the initial balance minus fee.
C14_AppliedOnceUndoneOnce ==
    \A n \in 0..Len(ops) :
        /\ Cardinality(Changing("undo", n)) <= Cardinality(Changing("apply", n))
        /\ BigNum(bals[n + 1]) \in {BigNum(bals[1]), BigNum(bals[1]) - fee}

\* C15: undo on a transaction that was never applied returns the account it
\* was given, balance unchanged, and leaves the transaction not applied.
C15_UndoNeverAppliedNoOp ==
    /\ \A i \in 1..Len(ops) :
        (ops[i] = "undo" /\ ~AppliedBefore(i)) => bals[i + 1] = bals[i]
    /\ (\A i \in 1..Len(ops) : ops[i] = "undo") => ~applied

C15_Witness ==
    /\ Len(ops) >= 2
    /\ \A i \in 1..Len(ops) : ops[i] = "undo"
    /\ ~applied
    /\ bals[Len(bals)] = bals[1]

(***************************************************************************)
(* Further claims about applyVote / undoVote, checked under Spec.          *)
(***************************************************************************)
\* the delegates the callbacks of `kinds` started by the current call address
Addressed(kinds) ==
    {t.address : t \in {u \in tasks : u.kind \in kinds /\ u.call = CurrentCall}}

\* C16: the amount effect acts only for transfer, in-transfer and
\* out-transfer transactions, the new-vote effect only for vote transactions,
\* the fee effect for every type; for any other type applyVote / undoVote do
\* not reject and change delegates by the fee effect only, so the store is
\* unchanged when the sender votes for no delegate.
C16_FamilyApplicability ==
    /\ ~IsAmountType(tx) =>
        /\ fam["amount"] \in {"idle", "done"}
        /\ \A t \in tasks : t.kind # "amount"
    /\ tx.type # TRANSACTION_TYPE_VOTE =>
        /\ fam["newVote"] \in {"idle", "done"}
        /\ \A t \in tasks : t.kind \notin {"up", "down"}
    /\ fam["fee"] = "done" =>
        Addressed({"fee"}) = delegateAddresses(accounts[tx.senderId])
    /\ (~IsAmountType(tx) /\ tx.type # TRANSACTION_TYPE_VOTE) =>
        /\ ~Rejected
        /\ \A t \in tasks : t.kind = "fee" /\ t.pc # "rejected"
        /\ delegateAddresses(accounts[tx.senderId]) = {} =>
            /\ accounts = accounts0
            /\ candidates = candidates0

C16_Witness ==
    /\ tx.type = TRANSACTION_TYPE_OTHER
    /\ calls = <<"apply">>
    /\ Completed
    /\ delegateAddresses(accounts[tx.senderId]) = {"D2"}
    /\ \A t \in tasks : t.kind = "fee" /\ t.pc = "done"
    /\ Weight(accounts, "D2") = Weight(accounts0, "D2") - tx.fee
    /\ accounts["D1"] = accounts0["D1"]

\* C17: getBytes depends on type, timestamp, senderPublicKey, recipientId,
\* amount, signature and signSignature only: a transaction and an unmodified
\* one, or one differing only in fee, give identical bytes; transactions
\* differing in amount give different bytes.
C17_GetBytesDeterministic ==
    ret.fn = "getBytes" =>
        /\ arg.other.amount = arg.transaction.amount => ret.otherBytes = ret.bytes
        /\ arg.other.amount # arg.transaction.amount => ret.otherBytes # ret.bytes

C17_Witness ==
    /\ ret.fn = "getBytes"
    /\ arg.other.fee # arg.transaction.fee
    /\ arg.other.amount = arg.transaction.amount
    /\ arg.transaction.signature # <<>>
    /\ arg.transaction.signSignature # <<>>
    /\ arg.transaction.recipientId # <<>>
    /\ ret.otherBytes = ret.bytes
    /\ Len(ret.bytes) = 25

\* the characters of a key, in code-unit order
CharOrder == <<"-", "0", "1", "2", "3", "4", "5", "6", "7", "8", "9", ":",
               "a", "b", "c", "d", "e", "f">>

CharCode(c) == CHOOSE i \in 1..Len(CharOrder) : CharOrder[i] = c

\* s sorts before t in the ordered bucket
RECURSIVE LexLess(_, _)
LexLess(s, t) ==
    IF t = <<>> THEN FALSE
    ELSE IF s = <<>> THEN TRUE
    ELSE IF CharCode(Head(s)) # CharCode(Head(t))
         THEN CharCode(Head(s)) < CharCode(Head(t))
         ELSE LexLess(Tail(s), Tail(t))

\* C18: the key built from (weight, publicKey) orders delegates numerically
\* by weight: for weights w1 < w2, of any digit counts and signs, and any
\* public keys, the key of w1 sorts before the key of w2.
C18_KeyOrderIsNumeric ==
    (ret.fn = "candidateKey" /\ arg.weight < arg.otherWeight) =>
        LexLess(ret.key, ret.otherKey)

(***************************************************************************)
(* Claims about applyVote / undoVote inside a block, checked under         *)
(* SpecBlock.                                                              *)
(***************************************************************************)
\* C19: undoVote takes from each upvoted delegate (gives back to each
\* downvoted delegate) exactly the weight applyVote gave it (took from it),
\* also when the sender's stored balance at undo time differs from the one
\* at apply time.
C19_UndoUsesApplyTimeValues ==
    calls = <<"apply", "undo">> =>
        \A t1 \in tasks, t2 \in tasks :
            (/\ t1.call = 1
             /\ t2.call = 2
             /\ t1.kind \in {"up", "down"}
             /\ t2.kind = t1.kind
             /\ t2.address = t1.address) => Delta(t2) = -Delta(t1)

\* no two callbacks of one call address the same delegate
DisjointWithinCall ==
    \A t1 \in tasks, t2 \in tasks :
        (t1.call = t2.call /\ t1.address = t2.address) => t1 = t2

\* C20: when applyVote(tx2) is started after the promise of applyVote(tx1)
\* has resolved, no update of either is lost: once both have run to
\* completion each delegate's votes equal its initial votes plus the deltas
\* of tx1 and tx2 (stated for calls whose own callbacks address distinct
\* delegates).
C20_SequentialProcessingSound ==
    (calls = <<"apply", "apply">> /\ Resolved /\ Quiescent /\ DisjointWithinCall) =>
        \A d \in Delegates :
            Weight(accounts, d) =
                Weight(accounts0, d) + SumDeltas({t \in tasks : t.address = d})

(***************************************************************************)
(* Frame of applyVote / undoVote, checked under Spec.                      *)
(***************************************************************************)
\* the accounts the callbacks address: the delegates voted for by the sender
\* or the recipient, and those named in the vote directives
Affected == {t.address : t \in tasks}

\* C21: applyVote / undoVote write only delegate accounts and CandidateIndex
\* entries: every step leaves the transactionId bucket alone, adds or removes
\* no account, changes only accounts a callback addresses and in them only
\* the votes field (never balance, publicKey, address or
\* votedDelegatesPublicKeys), and changes index entries only of such a
\* delegate; the sender and the recipient, not being affected delegates, are
\* never changed.
C21_WritesOnlyDelegateVotes ==
    [][/\ txs' = txs
       /\ DOMAIN accounts' = DOMAIN accounts
       /\ \A a \in DOMAIN accounts :
            accounts'[a] # accounts[a] =>
                /\ a \in Affected
                /\ a \in Delegates
                /\ accounts'[a] = [accounts[a] EXCEPT !.votes = accounts'[a].votes]
       /\ \A e \in (candidates' \ candidates) \cup (candidates \ candidates') :
            e[2] \in Affected /\ e[2] \in Delegates
       /\ (tx.senderId \notin Affected /\ tx.senderId \in DOMAIN accounts) =>
            accounts'[tx.senderId] = accounts0[tx.senderId]]_vars

C21_Witness ==
    /\ calls = <<"apply">>
    /\ Completed
    /\ tx.type = TRANSACTION_TYPE_TRANSFER
    /\ accounts["D2"].votes # accounts0["D2"].votes
    /\ accounts["D2"] = [accounts0["D2"] EXCEPT !.votes = accounts["D2"].votes]
    /\ candidates # candidates0
    /\ accounts["S"] = accounts0["S"]
    /\ accounts["R"] = accounts0["R"]

(***************************************************************************)
(* Re-inclusion of a rolled-back transaction, checked under SpecTx.        *)
(***************************************************************************)
\* C22: after apply followed by undo on one transaction, the next apply
\* deducts the fee from the balance again: undo has returned the transaction
\* to the not-applied state.
C22_ReapplyAfterUndo ==
    \A i \in 1..(Len(ops) - 2) :
        (ops[i] = "apply" /\ ops[i + 1] = "undo" /\ ops[i + 2] = "apply") =>
            BigNum(bals[i + 3]) = BigNum(bals[i + 2]) - fee

====
